---- MODULE Spec2Model ----
(***************************************************************************)
(* Retail Analytics Copilot: the LangGraph workflow of                     *)
(* agent/graph_hybrid.py (router, retriever, SQL generator, SQL executor,  *)
(* synthesizer and the edges between them) run by the batch driver of      *)
(* rag_agent_hybrid.py.                                                    *)
(*                                                                         *)
(* The graph is executed the way LangGraph executes a StateGraph: in       *)
(* supersteps.  Every node scheduled for a superstep reads the state as it *)
(* was committed by the previous superstep, its returned dict is a pending *)
(* write, and when all nodes of the superstep have returned the pending    *)
(* writes are committed and the nodes named by the outgoing edges of the   *)
(* nodes that ran form the next superstep.  A node's conditional edge is   *)
(* evaluated on the committed state overlaid with that node's own write.   *)
(***************************************************************************)
EXTENDS Integers, Sequences, FiniteSets, TLC

VARIABLES
    questions,   \* run_batch: the parsed input records
    i,           \* run_batch: enumerate index of the record being processed
    f_out,       \* run_batch: the lines written to the output file so far
    pc,          \* run_batch: "loop" | "invoke" | "done" | "crashed"
    state,       \* AgentState committed by the last superstep
    active,      \* nodes scheduled in the current superstep
    todo,        \* nodes of the current superstep that have not returned yet
    pending,     \* writes returned by the nodes of the current superstep
    triggered,   \* nodes named by the edges of the nodes that returned
    step,        \* number of the current superstep (1 = entry point)
    trace,       \* history: the node executions of this run, with superstep
    genLog,      \* history: what each sql_generator_node call was given
    execLog,     \* history: each sql_executor_node call and its routing
    synthLog,    \* history: what each synthesizer_node call was given
    lineOf,      \* history: for each output line, the record it was written for
    docs,        \* the files of the docs directory, in os.walk order
    retriever,   \* the LocalRetriever: chunks, vocabulary, tfidf_matrix
    argsort_kind,\* how this numpy build orders equal elements in argsort
    rpc,         \* "ready" | "raised" (index_directory raised)
    builds,      \* history: number of index_directory calls
    results,     \* what the last search call returned (None before any)
    lastSearch   \* history: the arguments of the last search call

vars == <<questions, i, f_out, pc, state, active, todo, pending, triggered,
          step, trace, genLog, execLog, synthLog, lineOf,
          docs, retriever, argsort_kind, rpc, builds, results, lastSearch>>

\* the batch run and the retriever
batch == <<questions, i, f_out, pc, state, active, todo, pending, triggered,
           step, trace, genLog, execLog, synthLog, lineOf>>
retr  == <<docs, retriever, argsort_kind, rpc, builds, results, lastSearch>>

graph == <<state, active, todo, pending, triggered, step>>
logs  == <<trace, genLog, execLog, synthLog>>

----------------------------------------------------------------------------
(* Bounds of the model *)

MaxRecords == 2        \* number of records in the input batch
MaxParas == 2          \* number of paragraphs in the text of a.md
MaxK == 3              \* largest k a search is called with
MaxBuilds == 2         \* number of index_directory calls on one retriever

----------------------------------------------------------------------------
(* Python values *)

None == [tag |-> "None"]
Some(v) == [tag |-> "Some", val |-> v]

\* Python truthiness of an Optional[str] and of an Optional[list]
TruthyStr(o) == o # None /\ o.val # ""
TruthyList(o) == o # None /\ o.val # <<>>

\* dict update: u overrides s on the keys u has
Update(s, u) == [k \in DOMAIN s \cup DOMAIN u |->
                    IF k \in DOMAIN u THEN u[k] ELSE s[k]]

NoWrites == [k \in {} |-> None]

Classifications == {"SQL", "RAG", "Hybrid"}
Queries == {"SELECT a", "SELECT b"}
ErrorTexts == {"no such table", "syntax error"}

\* the records an input line can hold: format_hint and id are optional
ItemBare == [question |-> <<"mammals">>, format_hint |-> None, id |-> None]
ItemWithId == [question |-> <<"paris">>, format_hint |-> Some("list"),
               id |-> Some("id1")]

\* what run_sqlite_query can return: (rows, column_names) or (str(e), None)
\* (the first component is a list on success and a str on failure)
PyList(l) == [list |-> l]
PyStr(t) == [str |-> t]

QueryReturns ==
    {[rows |-> PyList(<<>>), column_names |-> Some(<<>>)],
     [rows |-> PyList(<< <<7>> >>), column_names |-> Some(<<"n">>)]}
    \cup {[rows |-> PyStr(e), column_names |-> None] : e \in ErrorTexts}

\* what the synthesizer model can put in json_output
JsonOutputs == {"", "not json", "{answer}", "42"}

----------------------------------------------------------------------------
(* agent/rag/retrieval.py: LocalRetriever.                                 *)
(* A text is a sequence of tokens: words, the blank " " and the line break *)
(* "\n".  The TfidfVectorizer is taken at the level of its contract: a     *)
(* term is kept in the vocabulary when at least MinDf fragments and at     *)
(* most MaxDfPercent % of the fragments hold it, a row of the matrix holds *)
(* the vocabulary terms of its fragment (all with the same weight), and    *)
(* the similarity of a query and a row is their cosine.                    *)

MinDf == 2
MaxDfPercent == 85
TopK == 3

Whitespace == {" ", "\n"}

\* LocalRetriever.__init__
NewRetriever == [chunks |-> <<>>, vocabulary |-> None, tfidf_matrix |-> None]

\* re.split(r'\n\n+', content): cur is the piece being read, nl the number
\* of line breaks read since its last other token
RECURSIVE re_split(_, _, _)
re_split(rest, cur, nl) ==
    IF rest = <<>>
    THEN IF nl >= 2 THEN <<cur, <<>>>> ELSE <<cur \o [k \in 1..nl |-> "\n"]>>
    ELSE IF Head(rest) = "\n"
    THEN re_split(Tail(rest), cur, nl + 1)
    ELSE IF nl >= 2
    THEN <<cur>> \o re_split(Tail(rest), <<Head(rest)>>, 0)
    ELSE re_split(Tail(rest), cur \o [k \in 1..nl |-> "\n"] \o <<Head(rest)>>, 0)

\* str.strip()
RECURSIVE lstrip(_)
lstrip(t) ==
    IF t # <<>> /\ Head(t) \in Whitespace THEN lstrip(Tail(t)) ELSE t

RECURSIVE rstrip(_)
rstrip(t) ==
    IF t # <<>> /\ t[Len(t)] \in Whitespace
    THEN rstrip(SubSeq(t, 1, Len(t) - 1)) ELSE t

strip(t) == rstrip(lstrip(t))

\* the loop of _split_into_chunks from paragraph number n (1-based) on;
\* enumerate counts from 0
RECURSIVE split_loop(_, _, _, _)
split_loop(chunks, paragraphs, n, filename) ==
    IF n > Len(paragraphs) THEN chunks
    ELSE split_loop(
            IF strip(paragraphs[n]) # <<>>
            THEN Append(chunks, [content |-> strip(paragraphs[n]),
                                 source |-> filename,
                                 chunk_id |-> n - 1])
            ELSE chunks,
            paragraphs, n + 1, filename)

\* _split_into_chunks: self.chunks afterwards
split_into_chunks(chunks, content, filename) ==
    split_loop(chunks, re_split(content, <<>>, 0), 1, filename)

\* file.endswith(".md")
endswith_md(file) == file \in {"a.md", "b.md"}

\* the os.walk loop of index_directory from file number n on
RECURSIVE walk(_, _, _)
walk(chunks, files, n) ==
    IF n > Len(files) THEN chunks
    ELSE walk(IF endswith_md(files[n].name)
              THEN split_into_chunks(chunks, files[n].text, files[n].name)
              ELSE chunks,
              files, n + 1)

\* the terms the vectorizer's analyzer finds in a text
analyzer(text) == {text[k] : k \in 1..Len(text)} \ Whitespace

\* number of texts that hold term t
df(contents, t) == Cardinality({j \in 1..Len(contents) : t \in analyzer(contents[j])})

\* the vocabulary fit_transform learns
fit_vocabulary(contents) ==
    {t \in UNION {analyzer(contents[j]) : j \in 1..Len(contents)} :
        /\ df(contents, t) >= MinDf
        /\ df(contents, t) * 100 <= MaxDfPercent * Len(contents)}

\* fit_transform raises ValueError: max_df allows fewer documents than
\* min_df asks for, or no term is left after pruning
fit_raises(contents) ==
    \/ MaxDfPercent * Len(contents) < MinDf * 100
    \/ fit_vocabulary(contents) = {}

\* vectorizer.transform: out-of-vocabulary terms carry no weight
transform(vocabulary, text) == analyzer(text) \cap vocabulary

\* index_directory(path): the retriever afterwards, and whether the call
\* raised (self.chunks is already extended when fit_transform raises)
index_directory(self, files) ==
    LET chunks == walk(self.chunks, files, 1)
        chunk_contents == [j \in 1..Len(chunks) |-> chunks[j].content]
        vocabulary == fit_vocabulary(chunk_contents)
    IN  IF chunks = <<>>
        THEN [self |-> self, raised |-> FALSE]
        ELSE IF fit_raises(chunk_contents)
        THEN [self |-> [self EXCEPT !.chunks = chunks], raised |-> TRUE]
        ELSE [self |-> [chunks |-> chunks,
                        vocabulary |-> Some(vocabulary),
                        tfidf_matrix |->
                            Some([j \in 1..Len(chunks) |->
                                    transform(vocabulary, chunk_contents[j])])],
              raised |-> FALSE]

\* cosine_similarity of a query vector and a matrix row, as 36 * cos^2
\* (rows and queries of up to three terms)
cosine_similarity(query_vector, row) ==
    LET m == Cardinality(query_vector \cap row)
    IN  IF m = 0 THEN 0
        ELSE (36 * m * m) \div (Cardinality(query_vector) * Cardinality(row))

\* np.argsort(a): the indices (0-based) in ascending order of a.  The
\* default sort is not stable, so the order of equal elements depends on
\* the numpy build: kind is "stable" (equal elements by ascending index) or
\* "unstable" (by descending index)
argsort(a, kind) ==
    LET before(x, y) ==
            \/ a[x] < a[y]
            \/ a[x] = a[y] /\ IF kind = "stable" THEN x < y ELSE x > y
    IN  [p \in 1..Len(a) |->
            (CHOOSE x \in 1..Len(a) :
                Cardinality({y \in 1..Len(a) : before(y, x)}) = p - 1) - 1]

\* variant: seq[:k]
first_k(seq, k) ==
    IF k >= Len(seq) THEN seq ELSE SubSeq(seq, 1, k)

\* seq[-k:]
last_k(seq, k) ==
    IF k = 0 \/ k >= Len(seq) THEN seq
    ELSE SubSeq(seq, Len(seq) - k + 1, Len(seq))

\* variant: the order is kept
not_reversed(seq) == seq

\* seq[::-1]
reversed(seq) == [p \in 1..Len(seq) |-> seq[Len(seq) - p + 1]]

\* search(query, k)
search(self, query, k, kind) ==
    IF self.tfidf_matrix = None \/ self.chunks = <<>>
    THEN <<>>
    ELSE LET query_vector == transform(self.vocabulary.val, query)
             cosine_similarities ==
                 [j \in 1..Len(self.tfidf_matrix.val) |->
                     cosine_similarity(query_vector, self.tfidf_matrix.val[j])]
             top_k_indices == reversed(last_k(argsort(cosine_similarities, kind), k))
         IN  [p \in 1..Len(top_k_indices) |->
                 [score |-> cosine_similarities[top_k_indices[p] + 1],
                  chunk |-> self.chunks[top_k_indices[p] + 1]]]

----------------------------------------------------------------------------
(* rag_agent_hybrid.py: the initial state of a run *)

initial_state(item) ==
    [question |-> item.question,
     format_hint |-> item.format_hint,
     retry_count |-> 0,
     errors |-> <<>>,
     classification |-> None,
     sql_query |-> None,
     sql_results |-> None,
     retrieved_docs |-> None,
     final_answer |-> None]

----------------------------------------------------------------------------
(* agent/graph_hybrid.py: the nodes.  Each operator is the dict the node   *)
(* returns for the state it was given and for what its collaborator (model,*)
(* index or store) answered.                                               *)

router_node(s, classification) ==
    [classification |-> Some(classification), errors |-> <<>>]

\* search_results is what retriever.search(state['question'], k=3) returned;
\* a formatted document is "source::chunk_<id>", the content and the score
retriever_node(s, search_results) ==
    [retrieved_docs |->
        Some([j \in 1..Len(search_results) |->
                [ref |-> <<search_results[j].chunk.source, "::chunk_",
                           search_results[j].chunk.chunk_id>>,
                 content |-> search_results[j].chunk.content,
                 score |-> search_results[j].score]])]

\* "\n".join(errors): the texts in order, a separator between neighbours
RECURSIVE Join(_)
Join(errors) ==
    IF errors = <<>> THEN <<>>
    ELSE IF Len(errors) = 1 THEN <<errors[1]>>
    ELSE <<errors[1], "\n">> \o Join(Tail(errors))

\* the question sql_generator_node hands to the TextToSQL module
question_with_context(s) ==
    IF s.errors # <<>>
    THEN [template |-> "Previous attempt failed with error",
          error_context |-> Join(s.errors),
          question |-> s.question]
    ELSE [template |-> "", error_context |-> <<>>, question |-> s.question]

\* variant: the error log is not cleared after generation
sql_generator_node_keeps_errors(s, sql_query) ==
    [sql_query |-> Some(sql_query), errors |-> s.errors]

sql_generator_node(s, sql_query) ==
    [sql_query |-> Some(sql_query), errors |-> <<>>]

\* dict(zip(column_names, row))
ZipDict(column_names, row) ==
    [k \in 1..(IF Len(column_names) < Len(row) THEN Len(column_names) ELSE Len(row))
        |-> <<column_names[k], row[k]>>]

\* variant: a failure is logged without counting it as a retry
sql_executor_node_no_count(s, ret) ==
    IF ret.column_names # None
    THEN [sql_results |->
             Some([r \in 1..Len(ret.rows.list) |->
                      ZipDict(ret.column_names.val, ret.rows.list[r])])]
    ELSE [errors |-> Append(s.errors, ret.rows.str)]

\* variant: a failed execution stores an empty result list
sql_executor_node_failure_sets_results(s, ret) ==
    IF ret.column_names # None
    THEN [sql_results |->
             Some([r \in 1..Len(ret.rows.list) |->
                      ZipDict(ret.column_names.val, ret.rows.list[r])])]
    ELSE [sql_results |-> Some(<<>>),
          errors |-> Append(s.errors, ret.rows.str),
          retry_count |-> s.retry_count + 1]

\* variant: a successful execution resets the retry counter
sql_executor_node_resets_count(s, ret) ==
    IF ret.column_names # None
    THEN [sql_results |->
             Some([r \in 1..Len(ret.rows.list) |->
                      ZipDict(ret.column_names.val, ret.rows.list[r])]),
          retry_count |-> 0]
    ELSE [errors |-> Append(s.errors, ret.rows.str),
          retry_count |-> s.retry_count + 1]

sql_executor_node(s, ret) ==
    IF ret.column_names # None
    THEN [sql_results |->
             Some([r \in 1..Len(ret.rows.list) |->
                      ZipDict(ret.column_names.val, ret.rows.list[r])])]
    ELSE [errors |-> Append(s.errors, ret.rows.str),
          retry_count |-> s.retry_count + 1]

\* variant: the documents part is added whenever retrieve_docs has run
context_docs_not_none(s) ==
    (IF TruthyList(s.sql_results)
     THEN <<[part |-> "SQL Results:", body |-> s.sql_results.val]>> ELSE <<>>)
    \o
    (IF s.retrieved_docs # None
     THEN <<[part |-> "Retrieved Documents:", body |-> s.retrieved_docs.val]>> ELSE <<>>)

\* the context string synthesizer_node assembles, as its parts in order
context(s) ==
    (IF TruthyList(s.sql_results)
     THEN <<[part |-> "SQL Results:", body |-> s.sql_results.val]>> ELSE <<>>)
    \o
    (IF TruthyList(s.retrieved_docs)
     THEN <<[part |-> "Retrieved Documents:", body |-> s.retrieved_docs.val]>> ELSE <<>>)

\* the four inputs synthesizer_node passes to the Synthesizer module;
\* state.get(key, default) yields the default only when the key is absent,
\* and run_batch's initial state holds every key
synthesizer_inputs(s) ==
    [question |-> s.question,
     context |-> context(s),
     sql_query |-> s.sql_query,
     format_hint |-> s.format_hint]

synthesizer_node(s, json_output) ==
    [final_answer |-> Some(json_output)]

----------------------------------------------------------------------------
(* agent/graph_hybrid.py: the edges *)

RetryLimit == 2

\* variant: a question classified SQL is sent down the hybrid path
route_question_sql_as_hybrid(s) ==
    IF s.classification = Some("RAG") THEN "retrieve_docs"
    ELSE IF s.classification \in {Some("SQL"), Some("Hybrid")} THEN "hybrid_flow"
    ELSE "None"

route_question(s) ==
    IF s.classification = Some("SQL") THEN "generate_sql"
    ELSE IF s.classification = Some("RAG") THEN "retrieve_docs"
    ELSE IF s.classification = Some("Hybrid") THEN "hybrid_flow"
    ELSE "None"

\* the path map of the router's conditional edge
RouterPathMap(r) ==
    CASE r = "generate_sql"  -> "generate_sql"
      [] r = "retrieve_docs" -> "retrieve_docs"
      [] r = "hybrid_flow"   -> "retrieve_docs"

\* variant: every retrieval is followed by a query
route_after_retrieval_always_sql(s) == "generate_sql"

route_after_retrieval(s) ==
    IF s.classification = Some("Hybrid") THEN "generate_sql" ELSE "synthesize"

\* variant: a failed query is regenerated without looking at the counter
check_sql_execution_unbounded(s) ==
    IF s.errors # <<>> THEN "generate_sql" ELSE "synthesize"

\* variant: the retry counter is compared with <= instead of <
check_sql_execution_off_by_one(s) ==
    IF s.errors # <<>> /\ s.retry_count <= RetryLimit
    THEN "generate_sql" ELSE "synthesize"

check_sql_execution(s) ==
    IF s.errors # <<>> /\ s.retry_count < RetryLimit
    THEN "generate_sql" ELSE "synthesize"

\* variant: no edge leads from execute_sql to synthesize
Edges_no_synthesis_after_query(n, s) ==
    CASE n = "router"        -> {RouterPathMap(route_question(s))}
      [] n = "retrieve_docs" -> {"synthesize"} \cup {route_after_retrieval(s)}
      [] n = "generate_sql"  -> {"execute_sql"}
      [] n = "execute_sql"   -> {check_sql_execution(s)} \ {"synthesize"}
      [] n = "synthesize"    -> {}

\* the nodes scheduled when node n has returned; s is the state n's
\* conditional edge reads (n's own write applied).  retrieve_docs has both
\* the plain edge to synthesize and the conditional edge.
Edges(n, s) ==
    CASE n = "router"        -> {RouterPathMap(route_question(s))}
      [] n = "retrieve_docs" -> {"synthesize"} \cup {route_after_retrieval(s)}
      [] n = "generate_sql"  -> {"execute_sql"}
      [] n = "execute_sql"   -> {check_sql_execution(s)}
      [] n = "synthesize"    -> {}

----------------------------------------------------------------------------
(* Execution of the compiled graph (app.invoke) *)

Nodes == {"router", "retrieve_docs", "generate_sql", "execute_sql", "synthesize"}

\* the nodes that call the language model
ModelNodes == {"router", "generate_sql", "synthesize"}

\* Node n of the current superstep returns the dict u.  The last node of the
\* superstep to return commits the pending writes and schedules the nodes
\* the edges named; when none is named the graph is at END.
Return(n, u) ==
    LET writes == Update(pending, u)
        next   == triggered \cup Edges(n, Update(state, u))
    IN  /\ trace' = Append(trace, [node |-> n, step |-> step])
        /\ IF todo = {n}
           THEN /\ state' = Update(state, writes)
                /\ active' = next
                /\ todo' = next
                /\ pending' = NoWrites
                /\ triggered' = {}
                /\ step' = step + 1
           ELSE /\ todo' = todo \ {n}
                /\ pending' = writes
                /\ triggered' = next
                /\ UNCHANGED <<state, active, step>>

Scheduled(n) == pc = "invoke" /\ n \in todo

RouterNode ==
    /\ Scheduled("router")
    /\ \E classification \in Classifications :
          Return("router", router_node(state, classification))
    /\ UNCHANGED <<questions, i, f_out, pc, genLog, execLog, synthLog, lineOf>>
    /\ UNCHANGED retr

RetrieverNode ==
    /\ Scheduled("retrieve_docs")
    /\ \E search_results \in {search(retriever, state.question, TopK, argsort_kind)} :
          Return("retrieve_docs", retriever_node(state, search_results))
    /\ UNCHANGED <<questions, i, f_out, pc, genLog, execLog, synthLog, lineOf>>
    /\ UNCHANGED retr

SqlGeneratorNode ==
    /\ Scheduled("generate_sql")
    /\ \E sql_query \in Queries :
          Return("generate_sql", sql_generator_node(state, sql_query))
    /\ genLog' = Append(genLog, [given |-> question_with_context(state),
                                 errors_after |-> sql_generator_node(state, "").errors,
                                 executions_before |-> Len(execLog)])
    /\ UNCHANGED <<questions, i, f_out, pc, execLog, synthLog, lineOf>>
    /\ UNCHANGED retr

SqlExecutorNode ==
    /\ Scheduled("execute_sql")
    /\ \E ret \in QueryReturns :
          LET u == sql_executor_node(state, ret)
          IN  /\ Return("execute_sql", u)
              /\ execLog' = Append(execLog,
                    [failed |-> ret.column_names = None,
                     text |-> IF ret.column_names = None THEN ret.rows.str ELSE "",
                     sql_query |-> state.sql_query,
                     retry_before |-> state.retry_count,
                     retry_after |-> Update(state, u).retry_count,
                     errors_after |-> Update(state, u).errors,
                     next |-> Edges("execute_sql", Update(state, u))])
    /\ UNCHANGED <<questions, i, f_out, pc, genLog, synthLog, lineOf>>
    /\ UNCHANGED retr

SynthesizerNode ==
    /\ Scheduled("synthesize")
    /\ \E json_output \in JsonOutputs :
          Return("synthesize", synthesizer_node(state, json_output))
    /\ synthLog' = Append(synthLog, synthesizer_inputs(state))
    /\ UNCHANGED <<questions, i, f_out, pc, genLog, execLog, lineOf>>
    /\ UNCHANGED retr

\* A model call raises: no node catches it, app.invoke raises it, and
\* run_batch has no handler around app.invoke, so run_batch ends there (the
\* with block closes the output file with the lines written so far).
CollaboratorRaises ==
    /\ pc = "invoke"
    /\ \E n \in todo \cap ModelNodes : pc' = "crashed"
    /\ UNCHANGED <<questions, i, f_out, graph, logs, lineOf>>
    /\ UNCHANGED retr

----------------------------------------------------------------------------
(* rag_agent_hybrid.py: run_batch *)

\* json.loads: the parsed value, or JSONDecodeError
JsonLoads(text) ==
    CASE text = "{answer}" -> [ok |-> TRUE, value |-> [type |-> "object", of |-> "answer"]]
      [] text = "42"       -> [ok |-> TRUE, value |-> [type |-> "number", of |-> "42"]]
      [] OTHER             -> [ok |-> FALSE]

ErrorTag == "Failed to generate valid JSON response."

\* variant: the placeholder id is built from the 0-based index
ItemId_zero_based(item, n) ==
    IF item.id # None THEN item.id.val ELSE "error_" \o ToString(n)

\* item.get("id", f"error_{i+1}")
ItemId(item, n) == IF item.id # None THEN item.id.val ELSE "error_" \o ToString(n + 1)

\* the record run_batch writes for item number n (0-based) and a final state
output_json(item, n, final_state) ==
    LET raw_output == final_state.final_answer
        error_record == [id |-> ItemId(item, n), error |-> ErrorTag,
                         raw_output |-> raw_output]
    IN  IF TruthyStr(raw_output)
        THEN IF JsonLoads(raw_output.val).ok
             THEN JsonLoads(raw_output.val).value
             ELSE error_record
        ELSE error_record

\* top of the loop body: build the initial state and call app.invoke
ProcessRecord ==
    /\ pc = "loop"
    /\ i < Len(questions)
    /\ state' = initial_state(questions[i + 1])
    /\ active' = {"router"}
    /\ todo' = {"router"}
    /\ pending' = NoWrites
    /\ triggered' = {}
    /\ step' = 1
    /\ trace' = <<>>
    /\ genLog' = <<>>
    /\ execLog' = <<>>
    /\ synthLog' = <<>>
    /\ pc' = "invoke"
    /\ UNCHANGED <<questions, i, f_out, lineOf>>
    /\ UNCHANGED retr

\* variant: the output file is reopened for writing for every record
WriteResult_truncates ==
    /\ pc = "invoke"
    /\ active = {}
    /\ f_out' = <<output_json(questions[i + 1], i, state)>>
    /\ lineOf' = <<i + 1>>
    /\ i' = i + 1
    /\ pc' = IF i + 1 < Len(questions) THEN "loop" ELSE "done"
    /\ UNCHANGED <<questions, graph, logs>>
    /\ UNCHANGED retr

\* app.invoke has returned the final state: parse, write the line, go on
WriteResult ==
    /\ pc = "invoke"
    /\ active = {}
    /\ f_out' = Append(f_out, output_json(questions[i + 1], i, state))
    /\ lineOf' = Append(lineOf, i + 1)
    /\ i' = i + 1
    /\ pc' = IF i + 1 < Len(questions) THEN "loop" ELSE "done"
    /\ UNCHANGED <<questions, graph, logs>>
    /\ UNCHANGED retr

----------------------------------------------------------------------------

\* the input files considered: 1..MaxRecords lines, records without and with
\* id and format_hint alternating
Batches ==
    {[k \in 1..n |-> IF k % 2 = 0 THEN ItemWithId ELSE ItemBare] :
        n \in 1..MaxRecords}

\* paragraphs of the documents
Cats == <<"cats", " ", "mammals">>
Dogs == <<"dogs", " ", "mammals">>
Paris == <<"paris", " ", "city">>

\* the docs directories the batch run is started with: no file, or the two
\* files a.md (two paragraphs) and b.md (one)
ImportedDirs ==
    {<<>>,
     <<[name |-> "a.md", text |-> Cats \o <<"\n", "\n">> \o Dogs],
       [name |-> "b.md", text |-> Paris]>>}

\* graph_hybrid.py is imported (the retriever is built and the docs
\* directory indexed, without raising) and run_batch has read its input
Init ==
    /\ questions \in Batches
    /\ i = 0
    /\ f_out = <<>>
    /\ lineOf = <<>>
    /\ pc = "loop"
    /\ state = initial_state(questions[1])
    /\ active = {}
    /\ todo = {}
    /\ pending = NoWrites
    /\ triggered = {}
    /\ step = 0
    /\ trace = <<>>
    /\ genLog = <<>>
    /\ execLog = <<>>
    /\ synthLog = <<>>
    /\ docs \in ImportedDirs
    /\ ~index_directory(NewRetriever, docs).raised
    /\ retriever = index_directory(NewRetriever, docs).self
    /\ argsort_kind \in {"stable", "unstable"}
    /\ rpc = "ready"
    /\ builds = 1
    /\ results = None
    /\ lastSearch = None

Next ==
    \/ ProcessRecord
    \/ RouterNode
    \/ RetrieverNode
    \/ SqlGeneratorNode
    \/ SqlExecutorNode
    \/ SynthesizerNode
    \/ CollaboratorRaises
    \/ WriteResult

Spec == Init /\ [][Next]_vars

\* every call returns or raises: a scheduled node is eventually run
FairSpec == Spec /\ WF_vars(Next)

----------------------------------------------------------------------------
(* The retriever on its own: a docs directory is indexed, possibly again,  *)
(* and searched.                                                           *)

\* what a paragraph of a.md can be: empty, blank, or a paragraph of words
Pieces == {<<>>, <<" ">>, Cats}

\* the pieces with a blank line between neighbours
RECURSIVE JoinParas(_)
JoinParas(pieces) ==
    IF pieces = <<>> THEN <<>>
    ELSE IF Len(pieces) = 1 THEN pieces[1]
    ELSE pieces[1] \o <<"\n", "\n">> \o JoinParas(Tail(pieces))

Texts == {JoinParas(ps) : ps \in UNION {[1..n -> Pieces] : n \in 0..MaxParas}}

\* b.md has two paragraphs
BText == JoinParas(<<Dogs, Paris>>)

\* a.md alone, before b.md, or after b.md and a file that is no markdown
Directories ==
    UNION {{<<[name |-> "a.md", text |-> t]>>,
            <<[name |-> "a.md", text |-> t], [name |-> "b.md", text |-> BText]>>,
            <<[name |-> "notes.txt", text |-> Cats],
              [name |-> "b.md", text |-> BText],
              [name |-> "a.md", text |-> t]>>}
           : t \in Texts}

SearchQueries == {<<"mammals">>, <<"cats", " ", "mammals">>}

RetInit ==
    /\ questions = <<ItemBare>>
    /\ i = 0
    /\ f_out = <<>>
    /\ lineOf = <<>>
    /\ pc = "import"
    /\ state = initial_state(ItemBare)
    /\ active = {}
    /\ todo = {}
    /\ pending = NoWrites
    /\ triggered = {}
    /\ step = 0
    /\ trace = <<>>
    /\ genLog = <<>>
    /\ execLog = <<>>
    /\ synthLog = <<>>
    /\ docs \in Directories
    /\ retriever = NewRetriever
    /\ argsort_kind \in {"stable", "unstable"}
    /\ rpc = "ready"
    /\ builds = 0
    /\ results = None
    /\ lastSearch = None

\* retriever.index_directory(docs_path); an exception ends the program
IndexDirectory ==
    /\ rpc = "ready"
    /\ builds < MaxBuilds
    /\ \E call \in {index_directory(retriever, docs)} :
          /\ retriever' = call.self
          /\ rpc' = IF call.raised THEN "raised" ELSE "ready"
    /\ builds' = builds + 1
    /\ UNCHANGED <<docs, argsort_kind, results, lastSearch>>
    /\ UNCHANGED batch

\* the record kept of a search call: its arguments, the number of builds
\* before it, and whether the call before it had the same arguments on the
\* same build
SearchRecord(query, k) ==
    [query |-> query, k |-> k, builds |-> builds,
     repeated |-> /\ lastSearch # None
                  /\ lastSearch.val.query = query
                  /\ lastSearch.val.k = k
                  /\ lastSearch.val.builds = builds]

\* variant: search keeps only the fragments it returned
Search_drops_fragments ==
    /\ rpc = "ready"
    /\ \E query \in SearchQueries, k \in 1..MaxK :
          LET found == search(retriever, query, k, argsort_kind)
          IN  /\ results' = Some(found)
              /\ lastSearch' = Some(SearchRecord(query, k))
              /\ retriever' =
                    IF found = <<>> THEN retriever
                    ELSE [retriever EXCEPT
                            !.chunks = [p \in 1..Len(found) |-> found[p].chunk],
                            !.tfidf_matrix =
                                Some([p \in 1..Len(found) |->
                                        transform(retriever.vocabulary.val,
                                                  found[p].chunk.content)])]
    /\ UNCHANGED <<docs, argsort_kind, rpc, builds>>
    /\ UNCHANGED batch

\* retriever.search(query, k)
Search ==
    /\ rpc = "ready"
    /\ \E query \in SearchQueries, k \in 1..MaxK :
          /\ results' = Some(search(retriever, query, k, argsort_kind))
          /\ lastSearch' = Some(SearchRecord(query, k))
    /\ UNCHANGED <<docs, retriever, argsort_kind, rpc, builds>>
    /\ UNCHANGED batch

RetNext ==
    \/ IndexDirectory
    \/ Search

RetSpec == RetInit /\ [][RetNext]_vars

----------------------------------------------------------------------------
(* Vocabulary of the properties *)

Hybrid == state.classification = Some("Hybrid")
Structured == state.classification = Some("SQL")
Retrieval == state.classification = Some("RAG")

\* the positions of trace at which node n ran
Runs(n) == {k \in 1..Len(trace) : trace[k].node = n}

\* app.invoke is at END: the last superstep scheduled nothing
AtEnd == pc = "invoke" /\ active = {} /\ step > 0

\* the state as it will be once the writes of the superstep are committed
Written == Update(state, pending)

AllFailed == \A k \in 1..Len(execLog) : execLog[k].failed

----------------------------------------------------------------------------
(* C1: in a Hybrid run retrieve_docs runs first, then generate_sql and     *)
(* execute_sql, and synthesize runs only in a superstep after one in which *)
(* generate_sql and execute_sql ran.                                       *)
C1_HybridSynthesizeLast ==
    Hybrid =>
        \A k \in Runs("synthesize") :
            /\ \E r \in Runs("retrieve_docs") :
                  \A g \in Runs("generate_sql") : trace[r].step < trace[g].step
            /\ \E g \in Runs("generate_sql") : trace[g].step < trace[k].step
            /\ \E e \in Runs("execute_sql") : trace[e].step < trace[k].step

(* C2: synthesize runs exactly once per run, nothing runs with it or after *)
(* it, and the run is at END right after it.                               *)
C2_SynthesizeOnceAndLast ==
    /\ Cardinality(Runs("synthesize")) <= 1
    /\ AtEnd => Cardinality(Runs("synthesize")) = 1
    /\ \A k \in Runs("synthesize") :
          /\ \A m \in 1..Len(trace) : m # k => trace[m].step < trace[k].step
          /\ step > trace[k].step => active = {}

(* C3: a failed execution seen with retry counter < 2 before the increment *)
(* goes back to generate_sql, with the counter one higher and the failure  *)
(* text appended to the error log; so only a third failure goes to         *)
(* synthesize.                                                             *)
C3_RetryUntilThirdFailure ==
    \A k \in 1..Len(execLog) :
        (execLog[k].failed /\ execLog[k].retry_before < 2) =>
            /\ execLog[k].next = {"generate_sql"}
            /\ execLog[k].retry_after = execLog[k].retry_before + 1
            /\ execLog[k].errors_after # <<>>
            /\ execLog[k].errors_after[Len(execLog[k].errors_after)] = execLog[k].text

(* C4: the retry counter is at most 2 in every state, and an execution     *)
(* that finds or leaves it at 2 is followed by synthesize, failed or not.  *)
C4_RetryCounterAtMostTwo ==
    /\ state.retry_count <= 2
    /\ Written.retry_count <= 2
    /\ \A k \in 1..Len(execLog) :
          (execLog[k].retry_before >= 2 \/ execLog[k].retry_after >= 2)
              => execLog[k].next = {"synthesize"}

C4_Witness ==
    /\ state.retry_count = 2
    /\ Len(execLog) = 2
    /\ execLog[2].retry_after = 2
    /\ active = {"synthesize"}

(* C5: every run that was started ends: unless a model call raises, the    *)
(* graph reaches END with final_answer set, and no run makes more than     *)
(* RetryLimit generate_sql and RetryLimit execute_sql calls.               *)
C5_RunTerminates ==
    /\ (pc = "invoke") ~> (pc = "crashed" \/ (AtEnd /\ state.final_answer # None))
    /\ [](Len(genLog) <= RetryLimit /\ Len(execLog) <= RetryLimit)

C5_Witness ==
    /\ AtEnd
    /\ state.final_answer # None
    /\ Len(execLog) = RetryLimit
    /\ AllFailed

(* C6: in a run classified SQL retrieve_docs never runs and retrieved_docs *)
(* is None in every state and in what synthesize is given.                 *)
C6_StructuredNeverRetrieves ==
    Structured =>
        /\ Runs("retrieve_docs") = {}
        /\ state.retrieved_docs = None
        /\ Written.retrieved_docs = None
        /\ \A k \in 1..Len(synthLog) :
              \A p \in 1..Len(synthLog[k].context) :
                  synthLog[k].context[p].part # "Retrieved Documents:"

C6_Witness ==
    /\ Structured
    /\ Len(synthLog) = 1
    /\ AtEnd

(* C7: the first generate_sql call is given the plain question; a call     *)
(* after a failed execution is given the question in the repair template   *)
(* with the text of that execution and no other, the first failure having  *)
(* set the retry counter to 1; generate_sql leaves the error log empty.    *)
C7_RepairContextIsLastFailure ==
    /\ \A g \in 1..Len(genLog) :
          LET n == genLog[g].executions_before IN
          /\ genLog[g].given.question = state.question
          /\ genLog[g].errors_after = <<>>
          /\ n = 0 =>
                /\ genLog[g].given.template = ""
                /\ genLog[g].given.error_context = <<>>
          /\ n > 0 =>
                /\ execLog[n].failed
                /\ execLog[n].retry_after = execLog[n].retry_before + 1
                /\ (n = 1 => execLog[n].retry_after = 1)
                /\ genLog[g].given.template = "Previous attempt failed with error"
                /\ genLog[g].given.error_context = <<execLog[n].text>>
    /\ (pc = "invoke" /\ active = {"execute_sql"} /\ todo = active)
          => state.errors = <<>>

C7_Witness ==
    /\ Len(genLog) = 2
    /\ genLog[2].given.error_context = <<"syntax error">>
    /\ active = {"execute_sql"}

(* C8: the error log is never longer than the retry counter, and within a  *)
(* run the retry counter never decreases.                                  *)
C8_ErrorLogWithinRetryCounter ==
    /\ [](Len(state.errors) <= state.retry_count
          /\ Len(Written.errors) <= Written.retry_count)
    /\ [][pc = "invoke" => state'.retry_count >= state.retry_count]_vars

C8_Witness ==
    /\ state.retry_count = 2
    /\ Len(state.errors) = 1

(* C9: at most one node is scheduled in any superstep of a run.            *)
C9_OneNodePerSuperstep ==
    Cardinality(active) <= 1

(* C10: whatever fails in the run of a record, run_batch writes a line for *)
(* that record and goes on: it stops only with one line per input record.  *)
C10_BatchSurvivesFailures ==
    pc \in {"done", "crashed"} =>
        /\ Len(f_out) = Len(questions)
        /\ lineOf = [k \in 1..Len(questions) |-> k]

(* C11: when the final answer of a run is empty or does not parse as JSON, *)
(* run_batch appends exactly one error record holding the input's id (or   *)
(* error_<position>), the fixed error tag and the raw text, and goes on to *)
(* the next input.                                                         *)
C11_ErrorRecordForBadAnswer ==
    [][(AtEnd /\ (~TruthyStr(state.final_answer)
                  \/ ~JsonLoads(state.final_answer.val).ok))
        => /\ f_out' = Append(f_out,
                  [id |-> IF questions[i + 1].id # None
                          THEN questions[i + 1].id.val
                          ELSE "error_" \o ToString(i + 1),
                   error |-> "Failed to generate valid JSON response.",
                   raw_output |-> state.final_answer])
           /\ i' = i + 1
           /\ pc' = IF i' < Len(questions) THEN "loop" ELSE "done"]_vars

C11_Witness ==
    /\ pc = "loop"
    /\ Len(f_out) = 1
    /\ "error" \in DOMAIN f_out[1]
    /\ f_out[1].id = "error_1"
    /\ f_out[1].raw_output = Some("not json")

(* C12: after i completed runs the output holds exactly i lines, line j    *)
(* written for input j; lines once written are never changed or moved, and *)
(* when the loop is finished there is one line per input.                  *)
C12_OutputInOrderAppendOnly ==
    /\ [](/\ Len(f_out) = i
          /\ lineOf = [j \in 1..i |-> j]
          /\ (pc = "done" => i = Len(questions)))
    /\ [][/\ Len(f_out') >= Len(f_out)
          /\ \A j \in 1..Len(f_out) : f_out'[j] = f_out[j]]_vars

C12_Witness ==
    /\ pc = "done"
    /\ Len(f_out) = 2
    /\ lineOf = <<1, 2>>

(* C13: a line of the output is either an error record or an object of the *)
(* documented answer schema: JSON that parses but is not such an object is *)
(* never written through.                                                  *)
C13_OnlySchemaAnswersWritten ==
    \A k \in 1..Len(f_out) :
        \/ "error" \in DOMAIN f_out[k]
        \/ f_out[k].type = "object"

(* C20: in a run classified RAG, where no query was generated, synthesize  *)
(* passes the empty string as sql_query.                                   *)
C20_NoQueryIsEmptyString ==
    Retrieval =>
        \A k \in 1..Len(synthLog) : synthLog[k].sql_query = Some("")

----------------------------------------------------------------------------
(* Vocabulary of the retrieval properties *)

\* the index holds a matrix and fragments
Built == retriever.tfidf_matrix # None /\ retriever.chunks # <<>>

\* the last search ran on the index as it is now
Fresh == results # None /\ rpc = "ready" /\ lastSearch.val.builds = builds

\* similarity of fragment number j and the query of the last search
Sim(j) ==
    cosine_similarity(transform(retriever.vocabulary.val, lastSearch.val.query),
                      retriever.tfidf_matrix.val[j])

\* (source_id, ordinal) of fragment x is smaller than that of fragment y
KeyBefore(x, y) ==
    \/ x.source = "a.md" /\ y.source = "b.md"
    \/ x.source = y.source /\ x.chunk_id < y.chunk_id

(* C14, as stated: search returns at most k items and the scores of        *)
(* consecutive returned items are strictly decreasing.                     *)
C14_ScoresStrictlyDecreasing ==
    results # None =>
        /\ Len(results.val) <= lastSearch.val.k
        /\ \A p \in 1..(Len(results.val) - 1) :
              results.val[p].score > results.val[p + 1].score

(* C14, amended: search returns at most k items and the scores of          *)
(* consecutive returned items never increase; fragments of equal           *)
(* similarity are returned next to each other with equal scores.           *)
C14_ScoresNeverIncrease ==
    results # None =>
        /\ Len(results.val) <= lastSearch.val.k
        /\ \A p \in 1..(Len(results.val) - 1) :
              results.val[p].score >= results.val[p + 1].score

C14_Witness ==
    /\ Fresh /\ Built
    /\ lastSearch.val.k = 3
    /\ Len(retriever.chunks) > 3
    /\ Len(results.val) = 3
    /\ results.val[1].score > results.val[2].score
    /\ results.val[2].score = results.val[3].score
    /\ results.val[3].score > 0

(* C15: fragments of equal similarity are returned in ascending            *)
(* (source_id, ordinal) order, and a fragment left out never has the score *)
(* of a returned one and a smaller (source_id, ordinal).                   *)
C15_TiesByAscendingSourceOrdinal ==
    (Fresh /\ Built) =>
        /\ \A p, q \in 1..Len(results.val) :
              (p < q /\ results.val[p].score = results.val[q].score)
                  => KeyBefore(results.val[p].chunk, results.val[q].chunk)
        /\ \A p \in 1..Len(results.val), j \in 1..Len(retriever.chunks) :
              (Sim(j) = results.val[p].score
               /\ KeyBefore(retriever.chunks[j], results.val[p].chunk))
                  => \E q \in 1..Len(results.val) :
                         results.val[q].chunk = retriever.chunks[j]

(* C16: search(query, k) returns min(k, number of fragments) fragments     *)
(* with their scores, and every fragment that scores strictly higher than  *)
(* a returned one is returned as well.                                     *)
C16_TopKByScore ==
    (Fresh /\ Built) =>
        /\ Len(results.val) = IF lastSearch.val.k < Len(retriever.chunks)
                              THEN lastSearch.val.k ELSE Len(retriever.chunks)
        /\ \A p \in 1..Len(results.val) :
              /\ \E j \in 1..Len(retriever.chunks) :
                    /\ retriever.chunks[j] = results.val[p].chunk
                    /\ Sim(j) = results.val[p].score
              /\ Cardinality({j \in 1..Len(retriever.chunks) :
                                 Sim(j) > results.val[p].score})
                 = Cardinality({q \in 1..Len(results.val) :
                                   results.val[q].score > results.val[p].score})

C16_Witness ==
    /\ Fresh /\ Built
    /\ lastSearch.val.k = 1
    /\ Len(results.val) = 1
    /\ results.val[1].score = 36
    /\ \E j \in 1..Len(retriever.chunks) : Sim(j) > 0 /\ Sim(j) < 36
    /\ \E j \in 1..Len(retriever.chunks) : Sim(j) = 0

(* C17: the retained fragments of a source get the ordinals 0, 1, 2, ...   *)
(* in order of appearance, whatever paragraphs were discarded before them  *)
(* (looked at after the first build, before any rebuild).                  *)
C17_OrdinalsWithoutGaps ==
    (builds = 1 /\ rpc = "ready") =>
        \A j \in 1..Len(retriever.chunks) :
            retriever.chunks[j].chunk_id
                = Cardinality({m \in 1..(j - 1) :
                      retriever.chunks[m].source = retriever.chunks[j].source})

(* C18: whenever search may run, the fragment list and the matrix have the *)
(* same entries in the same order, and the fragments are those of the      *)
(* documents as last built, none of an earlier build and none twice.       *)
C18_IndexDescribesLastBuild ==
    rpc = "ready" =>
        \/ retriever.chunks = <<>> /\ retriever.tfidf_matrix = None
        \/ /\ retriever.tfidf_matrix # None
           /\ Len(retriever.tfidf_matrix.val) = Len(retriever.chunks)
           /\ \A j \in 1..Len(retriever.chunks) :
                 retriever.tfidf_matrix.val[j]
                     = transform(retriever.vocabulary.val, retriever.chunks[j].content)
           /\ retriever.chunks = walk(<<>>, docs, 1)

(* C19: with an index that is unbuilt or holds no fragment, search returns *)
(* the empty sequence, retrieve_docs records empty evidence, no synthesize *)
(* context holds a documents part, and a run that retrieved goes on to     *)
(* synthesize (unless a model call raises).                                *)
C19_EmptyIndexStillSynthesizes ==
    /\ [](~Built =>
            /\ \A k \in 1..Len(questions) :
                  search(retriever, questions[k].question, TopK, argsort_kind) = <<>>
            /\ (pc = "invoke" /\ Runs("retrieve_docs") # {})
                  => Written.retrieved_docs = Some(<<>>)
            /\ \A k \in 1..Len(synthLog) : \A p \in 1..Len(synthLog[k].context) :
                  synthLog[k].context[p].part # "Retrieved Documents:")
    /\ (~Built /\ pc = "invoke" /\ Runs("retrieve_docs") # {})
          ~> (pc = "crashed" \/ Len(synthLog) > 0)

C19_Witness ==
    /\ ~Built
    /\ Hybrid
    /\ AtEnd
    /\ Runs("retrieve_docs") # {}
    /\ state.retrieved_docs = Some(<<>>)
    /\ Len(synthLog) = 2
    /\ synthLog[1].context = <<>>
    /\ Len(synthLog[2].context) = 1
    /\ synthLog[2].context[1].part = "SQL Results:"

(* C21: a search call with the arguments of the call before it, on an     *)
(* index not rebuilt in between, returns the same items in the same order, *)
(* and no search call changes the fragment list, the vocabulary or the     *)
(* matrix.                                                                 *)
C21_SearchIdempotentReadOnly ==
    [][/\ (lastSearch' # None /\ lastSearch'.val.repeated) => results' = results
       /\ builds' = builds => retriever' = retriever]_vars

C21_Witness ==
    /\ Fresh /\ Built
    /\ lastSearch.val.repeated
    /\ lastSearch.val.k = 2
    /\ Len(results.val) = 2
    /\ results.val[1].score = results.val[2].score
    /\ results.val[1].score > 0

(* C22: in a run classified RAG, retrieve_docs is followed directly by     *)
(* synthesize: the nodes run are router, retrieve_docs, synthesize in that *)
(* order, one per superstep; generate_sql and execute_sql never run, the   *)
(* retry counter stays 0 and sql_query and sql_results stay None.          *)
C22_RetrievalNeverQueries ==
    Retrieval =>
        /\ Len(trace) <= 3
        /\ \A k \in 1..Len(trace) :
              trace[k] = [node |-> <<"router", "retrieve_docs", "synthesize">>[k],
                          step |-> k]
        /\ genLog = <<>> /\ execLog = <<>>
        /\ state.retry_count = 0 /\ Written.retry_count = 0
        /\ state.sql_query = None /\ Written.sql_query = None
        /\ state.sql_results = None /\ Written.sql_results = None
        /\ \A k \in 1..Len(synthLog) : synthLog[k].sql_query = None

C22_Witness ==
    /\ Retrieval
    /\ AtEnd
    /\ Len(trace) = 3
    /\ trace[3].node = "synthesize"
    /\ state.final_answer # None

(* C23: an execute_sql step either succeeds, and then sets sql_results and *)
(* leaves errors and retry_count as they were, or fails, and then appends  *)
(* the failure text to errors, adds 1 to retry_count and leaves            *)
(* sql_results as it was; a query without columns is a success with no     *)
(* rows and is followed by synthesize, not by a retry.                     *)
C23_ExecuteQueryEffects ==
    [][Len(execLog') = Len(execLog) + 1 =>
         LET e == execLog'[Len(execLog')] IN
         /\ Written' = state'
         /\ \A field \in DOMAIN state \ {"sql_results", "errors", "retry_count"} :
               state'[field] = Written[field]
         /\ IF e.failed
            THEN /\ state'.errors = Append(Written.errors, e.text)
                 /\ state'.retry_count = Written.retry_count + 1
                 /\ state'.sql_results = Written.sql_results
            ELSE /\ state'.sql_results # None
                 /\ state'.errors = Written.errors
                 /\ state'.retry_count = Written.retry_count
                 /\ active' = {"synthesize"}]_vars

C23_Witness ==
    /\ Len(execLog) = 2
    /\ execLog[1].failed
    /\ ~execLog[2].failed
    /\ state.sql_results = Some(<<>>)
    /\ state.retry_count = 1
    /\ state.errors = <<>>
    /\ active = {"synthesize"}

(* C24: when a run is at END, the node that ran last is synthesize, after  *)
(* every execute_sql and retrieve_docs of the run; final_answer is what    *)
(* that call returned (no other node writes it), and the context it was    *)
(* given holds the execution results, if any, and the retrieved fragments, *)
(* if any.                                                                 *)
C24_AnswerFromLastSynthesis ==
    /\ [](AtEnd =>
            /\ trace # <<>> /\ synthLog # <<>>
            /\ trace[Len(trace)].node = "synthesize"
            /\ \A k \in Runs("execute_sql") \cup Runs("retrieve_docs") :
                  trace[k].step < trace[Len(trace)].step
            /\ state.final_answer # None
            /\ synthLog[Len(synthLog)].context =
                  (IF state.sql_results # None /\ state.sql_results.val # <<>>
                   THEN <<[part |-> "SQL Results:", body |-> state.sql_results.val]>>
                   ELSE <<>>)
                  \o
                  (IF state.retrieved_docs # None /\ state.retrieved_docs.val # <<>>
                   THEN <<[part |-> "Retrieved Documents:",
                           body |-> state.retrieved_docs.val]>>
                   ELSE <<>>))
    /\ [][(pc = "invoke" /\ pc' = "invoke")
            => \/ Written'.final_answer = Written.final_answer
               \/ /\ Len(synthLog') = Len(synthLog) + 1
                  /\ Written'.final_answer \in {Some(j) : j \in JsonOutputs}]_vars

C24_Witness ==
    /\ Hybrid
    /\ AtEnd
    /\ Len(synthLog) = 2
    /\ synthLog[1].context # synthLog[2].context
    /\ Len(synthLog[2].context) = 2
    /\ state.final_answer = Some("{answer}")

(* C25: whenever synthesize runs on a state whose sql_results is not None, *)
(* the error log of that state is empty, the last execute_sql of the run   *)
(* succeeded, and sql_query is the query it executed: results are never    *)
(* combined with a later, failed query.                                    *)
C25_ResultsBelongToCurrentQuery ==
    [][(Len(synthLog') = Len(synthLog) + 1 /\ state.sql_results # None) =>
         /\ state.errors = <<>>
         /\ execLog # <<>>
         /\ ~execLog[Len(execLog)].failed
         /\ execLog[Len(execLog)].sql_query = state.sql_query
         /\ synthLog'[Len(synthLog')].sql_query = state.sql_query
         /\ \A k \in Runs("execute_sql") : trace[k].step < step]_vars

C25_Witness ==
    /\ AtEnd
    /\ Len(execLog) = 2
    /\ execLog[1].failed
    /\ execLog[1].sql_query = Some("SELECT a")
    /\ execLog[2].sql_query = Some("SELECT b")
    /\ state.sql_results # None /\ state.sql_results.val # <<>>
    /\ synthLog[Len(synthLog)].sql_query = Some("SELECT b")

====
